---- MODULE Spec2Model ----
(***************************************************************************)
(* termail: cache synchronisation (update_cache), message selection        *)
(* (select_msg) and the cache read path (cached_messages), with the        *)
(* configuration file that stores the last-selected pointer and the SQLite *)
(* message table.                                                          *)
(***************************************************************************)
EXTENDS Integers, Sequences, FiniteSets, TLC

\* ------------------------------------------------------------------ bounds
\* Number of mails the mail servers receive during a run, over all mailboxes.
MaxMails == 2

\* Invocations of the tool that may exist side by side.
Procs == {1, 2}

\* ----------------------------------------------------------------- helpers
\* Python's None and a present value.
None == <<>>
Some(x) == <<x>>
Val(o) == o[1]

Reverse(s) == [k \in 1..Len(s) |-> s[Len(s) + 1 - k]]

RECURSIVE SeqToSet(_)
SeqToSet(s) == IF s = <<>> THEN {} ELSE {Head(s)} \cup SeqToSet(Tail(s))

RECURSIVE SetMax(_)
SetMax(S) ==
    IF S = {} THEN 0
    ELSE LET x == CHOOSE y \in S : TRUE
             m == SetMax(S \ {x})
         IN IF x > m THEN x ELSE m

\* str(int) and int(str) for the non-negative integers the config stores:
\* a decimal digit string, most significant digit first.
Digits == <<"0", "1", "2", "3", "4", "5", "6", "7", "8", "9">>

RECURSIVE str(_)
str(n) ==
    IF n < 10 THEN <<Digits[n + 1]>>
    ELSE Append(str(n \div 10), Digits[(n % 10) + 1])

DigitVal(c) == (CHOOSE k \in 1..10 : Digits[k] = c) - 1

RECURSIVE int(_)
int(s) ==
    IF Len(s) = 1 THEN DigitVal(s[1])
    ELSE 10 * int(SubSeq(s, 1, Len(s) - 1)) + DigitVal(s[Len(s)])

\* ------------------------------------------------------------ mail content
\* The folder sections a configuration file may declare, in declared order.
FolderNames == <<"work", "home">>

\* Subjects and dates of the mails the two mailboxes receive, by arrival
\* (the UID the server assigns selects the entry, cyclically).
Subjects ==
    [work |-> << <<"I","n","v">>, <<"R","e","p","1">> >>,
     home |-> << <<"I","n","v">>, <<"r","e","p","2">> >>]

\* The Date headers in use, earliest first, and the instant each names.
DateStrings == <<"d1", "d2">>

Instant(date_str) == CHOOSE k \in 1..Len(DateStrings) : DateStrings[k] = date_str

Dates ==
    [work |-> <<"d1", "d2">>,
     home |-> <<"d1", "d1">>]

Senders == [work |-> "boss", home |-> "amy"]

Cyc(seq, n) == seq[((n - 1) % Len(seq)) + 1]

\* The mail the server stores under UID uid of mailbox f on arrival.
MailOf(f, uid) ==
    [uid |-> uid, subject |-> Cyc(Subjects[f], uid), from_ |-> Senders[f],
     date_str |-> Cyc(Dates[f], uid), flags |-> <<>>]

\* ------------------------------------------------------------------- state
VARIABLES
    server,      \* f -> [uidnext, mails, deleted]: the remote mailboxes, and
                 \*      the UIDs removed from each on a delete request
    confFile,    \* the configuration file on disk
    table,       \* the committed rows of the message table (db.sqlite)
    txn,         \* the open write transaction: [owner, view]
    conf,        \* p -> the Config object of invocation p
    pc,          \* p -> position of invocation p
    args,        \* p -> arguments and options of the running command
    local,       \* p -> local variables of the running operation
    result,      \* p -> how the operation ended
    before,      \* p -> cache rows and pointer when the operation started
    obs          \* p -> where the other invocations stood at p's cache query

vars == <<server, confFile, table, txn, conf, pc, args, local, result, before,
          obs>>

\* ------------------------------------------------------------ Message model
\* Message.from_mail_message: the Message built from a fetched mail; its id
\* stays unset until the row is inserted.
from_mail_message(folder, mail) ==
    [id |-> None,
     config_name |-> folder,
     uid |-> IF mail.uid # None THEN Some(int(Val(mail.uid))) ELSE None,
     subject |-> mail.subject,
     from_ |-> mail.from_,
     date_str |-> mail.date_str,
     flags |-> mail.flags,
     timestamp |-> mail.date]

\* What MailBox.fetch(mark_seen=False, reverse=True, bulk=True) yields for
\* mailbox f: every stored mail, newest first, the UID as a string.
fetch(f) ==
    LET stored == Reverse(server[f].mails)
    IN [k \in 1..Len(stored) |->
            [uid |-> Some(str(stored[k].uid)),
             subject |-> stored[k].subject,
             from_ |-> stored[k].from_,
             date_str |-> stored[k].date_str,
             flags |-> stored[k].flags,
             date |-> Instant(stored[k].date_str)]]

\* Message.__hash__ hashes this triple.
HashKey(m) == <<m.uid, m.subject, m.date_str>>

\* The rows an INSERT of the pending messages creates in the rows `rows`:
\* the integer primary key is SQLite's rowid, one more than the largest
\* rowid in use (1 in an empty table).
RECURSIVE InsertAll(_, _)
InsertAll(rows, msgs) ==
    IF msgs = <<>> THEN rows
    ELSE LET newid == SetMax({Val(r.id) : r \in rows}) + 1
             row == [Head(msgs) EXCEPT !.id = Some(newid)]
         IN InsertAll(rows \cup {row}, Tail(msgs))

\* The rows of a set as the sequence a query without ORDER BY returns:
\* by ascending rowid.
RECURSIVE InIdOrder(_)
InIdOrder(rows) ==
    IF rows = {} THEN <<>>
    ELSE LET first == CHOOSE r \in rows : \A q \in rows : Val(r.id) <= Val(q.id)
         IN <<first>> \o InIdOrder(rows \ {first})

\* SQLite's LIKE: % stands for any run of characters, _ for any one
\* character, and ASCII letters compare without regard to case.
UpperCase == <<"A","B","C","D","E","F","G","H","I","J","K","L","M",
               "N","O","P","Q","R","S","T","U","V","W","X","Y","Z">>
LowerCase == <<"a","b","c","d","e","f","g","h","i","j","k","l","m",
               "n","o","p","q","r","s","t","u","v","w","x","y","z">>

Fold(c) ==
    IF \E k \in 1..Len(UpperCase) : UpperCase[k] = c
    THEN LowerCase[CHOOSE k \in 1..Len(UpperCase) : UpperCase[k] = c]
    ELSE c

RECURSIVE Like(_, _)
Like(s, pat) ==
    IF pat = <<>> THEN s = <<>>
    ELSE IF Head(pat) = "%"
    THEN Like(s, Tail(pat)) \/ (s # <<>> /\ Like(Tail(s), pat))
    ELSE /\ s # <<>>
         /\ Head(pat) = "_" \/ Fold(Head(pat)) = Fold(Head(s))
         /\ Like(Tail(s), Tail(pat))

\* Message.subject.contains(ptn): subject LIKE '%' || ptn || '%'.
contains(subject, ptn) == Like(subject, <<"%">> \o ptn \o <<"%">>)

\* Python's `term in text` for strings: a literal, case-sensitive occurrence
\* of term in text at any position.
IsSubstring(term, text) ==
    \E k \in 0..(Len(text) - Len(term)) :
        SubSeq(text, k + 1, k + Len(term)) = term

\* The patterns a caller passes to select_msg: tuples of terms.
Patterns ==
    {<<>>,
     << <<"I","n","v">> >>,
     << <<"R","e","p">> >>,
     << <<"X","y","z">> >>,
     << <<"p","1">>, <<"X","y","z">> >>}

\* ------------------------------------------------------------------ Config
\* Config.folders: every section but APPLICATION, in declared order.
Config_folders(c) == c.folders

\* ----------------------------------------------------------- results, locals
\* How an operation ended: it returned ret, raised exc, called exit(), or
\* the process was terminated from outside; at is the position it ended at.
NoExc == [cls |-> "", msg |-> ""]
NoResult == [status |-> "none", exc |-> NoExc, ret |-> <<>>, at |-> ""]
Returned(v) == [NoResult EXCEPT !.status = "return", !.ret = v]
Raised(e) == [NoResult EXCEPT !.status = "raise", !.exc = e]
Exited == [NoResult EXCEPT !.status = "exit"]
Killed == [NoResult EXCEPT !.status = "killed"]

\* The exceptions the operations raise: class and message.
NoLastMessage == [cls |-> "NoLastMessage", msg |-> "Last message not found."]
MultipleMatched ==
    [cls |-> "Error", msg |-> "Multiple messages matched search pattern."]
NoneMatched == [cls |-> "Error", msg |-> "No message matched search pattern."]
NoSectionError == [cls |-> "NoSectionError", msg |-> "No section: 'APPLICATION'"]
UnboundLocalError == [cls |-> "UnboundLocalError", msg |-> "i"]
MailboxLoginError == [cls |-> "MailboxLoginError", msg |-> ""]
OperationalError == [cls |-> "OperationalError", msg |-> "database is locked"]
AssertionError == [cls |-> "AssertionError", msg |-> ""]
FolderConfigNotFound == [cls |-> "FolderConfigNotFound", msg |-> "Folder config not found"]
NoFolders == [cls |-> "Error", msg |-> "No folders to list messages from."]
NoFoldersMatching == [cls |-> "Error", msg |-> "No folders matching pattern."]

NoExp == [kind |-> "", id |-> 0, terms |-> <<>>]
\* What is known of a finished call of set_flag or delete_msg: its arguments,
\* whether msg.flags held the flag when it started, how it ended, the
\* requests it sent to the server and the number of write statements it ran
\* on the cache.
NoCall ==
    [op |-> "", flag |-> "", val |-> FALSE, had |-> FALSE, status |-> "",
     remote |-> <<>>, writes |-> 0]

\* Locals of the running operation. msg is the Message object in memory;
\* flag and val are the arguments of set_flag and flags0 is msg.flags at the
\* start of the call; remote and writes note what the running call has sent
\* to the server and written to the cache; prev is the call that ran before
\* it on the same Message object.
NoLocal ==
    [folders |-> <<>>, i |-> 0, messages |-> <<>>, exp |-> NoExp,
     msg |-> None, op |-> "", flag |-> "", val |-> FALSE, flags0 |-> <<>>,
     remote |-> <<>>, writes |-> 0, prev |-> NoCall]
NoArgs ==
    [cmd |-> "", debug |-> FALSE, pattern |-> <<>>, interactive |-> FALSE,
     folders |-> <<>>, limit |-> 0, sort |-> "date", reverse |-> FALSE,
     update |-> FALSE, all_folders |-> FALSE]
NoTxn == [owner |-> 0, view |-> {}]
NoConf == [folders |-> <<>>, hasApp |-> FALSE, last |-> None]
NoBefore == [rows |-> {}, last |-> None]

\* The configuration files the user may have written: the folder sections,
\* with or without an [APPLICATION] section; termail itself never adds one.
ConfigFiles ==
    {[folders |-> SubSeq(FolderNames, 1, n), hasApp |-> a, last |-> None] :
        n \in 0..Len(FolderNames), a \in BOOLEAN}

Init ==
    /\ server = [f \in SeqToSet(FolderNames) |->
                    [uidnext |-> 1, mails |-> <<>>, deleted |-> {}]]
    /\ confFile \in ConfigFiles
    /\ table = {}
    /\ txn = NoTxn
    /\ conf = [p \in Procs |-> NoConf]
    /\ pc = [p \in Procs |-> "idle"]
    /\ args = [p \in Procs |-> NoArgs]
    /\ local = [p \in Procs |-> NoLocal]
    /\ result = [p \in Procs |-> NoResult]
    /\ before = [p \in Procs |-> NoBefore]
    /\ obs = [p \in Procs |-> {}]

\* --------------------------------------------------------- the mail server
\* The mail servers change between invocations. (A change during an
\* invocation reaches it through fetch alone, and each mailbox is fetched
\* once, so it acts as a change before or after the invocation.)
Quiet == \A p \in Procs : pc[p] = "idle"

RECURSIVE Received(_)
Received(fs) ==
    IF fs = <<>> THEN 0 ELSE server[Head(fs)].uidnext - 1 + Received(Tail(fs))

\* A mail arrives in the configured mailbox f and gets the next UID.
RemoteArrive(f) ==
    /\ Quiet
    /\ f \in SeqToSet(confFile.folders)
    /\ Received(FolderNames) < MaxMails
    /\ server' = [server EXCEPT
            ![f].mails = Append(@, MailOf(f, server[f].uidnext)),
            ![f].uidnext = @ + 1]
    /\ UNCHANGED <<confFile, table, txn, conf, pc, args, local, result, before, obs>>

\* Another mail client removes the k-th mail of mailbox f.
RemoteExpunge(f, k) ==
    /\ Quiet
    /\ k \in 1..Len(server[f].mails)
    /\ server' = [server EXCEPT
            ![f].mails = SubSeq(@, 1, k - 1) \o SubSeq(@, k + 1, Len(@))]
    /\ UNCHANGED <<confFile, table, txn, conf, pc, args, local, result, before, obs>>

\* ------------------------------------------------------ invocation frame
\* The commands that take the single_message argument, whose callback is
\* select_msg, and the listing commands.
SingleMessageCommands == {"read", "details", "delete", "flag", "unflag"}
ListCommands == {"list", "unread", "flagged"}

\* First position of each command: "update", the single message and the
\* listing commands of the CLI; "select" and "cached" for a call of
\* select_msg and of cached_messages alone; "api" for a program that calls
\* set_flag and delete_msg on a context of its own.
Entry(a) ==
    CASE a.cmd = "update" -> "uc_begin"
      [] a.cmd \in {"select"} \cup SingleMessageCommands -> "sm_filter"
      [] a.cmd = "cached" -> "cm_query"
      [] a.cmd \in ListCommands -> IF a.update THEN "uc_begin" ELSE "fo_select"
      [] a.cmd = "api" -> "ready"
      [] OTHER -> "done"

\* cli: the group callback reads the configuration file into a Config and
\* opens the database; the command then runs.
cli(p, a) ==
    /\ pc[p] = "idle"
    /\ conf' = [conf EXCEPT ![p] = confFile]
    /\ args' = [args EXCEPT ![p] = a]
    /\ local' = [local EXCEPT ![p] = NoLocal]
    /\ result' = [result EXCEPT ![p] = NoResult]
    /\ before' = [before EXCEPT ![p] = [rows |-> table, last |-> confFile.last]]
    /\ pc' = [pc EXCEPT ![p] = Entry(a)]
    /\ UNCHANGED <<server, confFile, table, txn, obs>>

\* Where the command of p goes on when the operation at its position has
\* returned: the next statement of the command function, "done" at its end.
After(p) ==
    LET cmd == args[p].cmd
        at == pc[p]
    IN CASE cmd \in ListCommands /\ at \in {"rm_fetch", "uc_dellast"} -> "fo_select"
         [] cmd \in ListCommands /\ at = "fo_select" -> "cm_query"
         [] cmd \in ListCommands /\ at = "cm_query" -> "ls_print"
         [] cmd \in {"read", "delete", "flag", "unflag"} /\ at = "sm_match"
              -> "cmd_body"
         [] cmd = "read" /\ at \in {"sf_check", "sf_write"}
                /\ local[p].flag = "\\Seen" -> "cmd_body2"
         [] cmd = "delete" /\ at = "dm_write" -> "cmd_dellast"
         [] OTHER -> "done"

\* The operation of p ends with result r. A return goes on with the rest of
\* the command; an exception or exit() ends the command (run, lines 22-27).
\* The "api" program goes on with its next call after a return and after an
\* exception alike.
Finish(p, r) ==
    /\ pc' = [pc EXCEPT ![p] =
            IF args[p].cmd = "api" /\ r.status \in {"return", "raise"} THEN "ready"
            ELSE IF r.status = "return" THEN After(p)
            ELSE "done"]
    /\ result' = [result EXCEPT ![p] = [r EXCEPT !.at = pc[p]]]

\* The process of invocation p has exited; the next invocation may start.
Exit(p) ==
    /\ pc[p] = "done"
    /\ pc' = [pc EXCEPT ![p] = "idle"]
    /\ conf' = [conf EXCEPT ![p] = NoConf]
    /\ args' = [args EXCEPT ![p] = NoArgs]
    /\ local' = [local EXCEPT ![p] = NoLocal]
    /\ result' = [result EXCEPT ![p] = NoResult]
    /\ before' = [before EXCEPT ![p] = NoBefore]
    /\ obs' = [obs EXCEPT ![p] = {}]
    /\ UNCHANGED <<server, confFile, table, txn>>

\* The process of invocation p is terminated from outside in the middle of
\* its work; SQLite rolls its open transaction back.
Kill(p) ==
    /\ pc[p] \notin {"idle", "done"}
    /\ Finish(p, Killed)
    /\ txn' = IF txn.owner = p THEN NoTxn ELSE txn
    /\ UNCHANGED <<server, confFile, table, conf, args, local, before, obs>>

\* ------------------------------------------------------------ update_cache
\* update_cache, line 157: folders = list(ctx.config.folders()).
update_cache_begin(p) ==
    /\ pc[p] = "uc_begin"
    /\ local' = [local EXCEPT ![p] =
            [NoLocal EXCEPT !.folders = Config_folders(conf[p])]]
    /\ pc' = [pc EXCEPT ![p] = "rm_fetch"]
    /\ UNCHANGED <<server, confFile, table, txn, conf, args, result, before, obs>>

\* Variant of remote_messages_fetch that stores each folder's messages in
\* the table as soon as they are fetched.
remote_messages_fetch_store(p) ==
    /\ pc[p] = "rm_fetch"
    /\ local[p].i < Len(local[p].folders)
    /\ LET f == local[p].folders[local[p].i + 1]
           tmp == fetch(f)
           new == [k \in 1..Len(tmp) |-> from_mail_message(f, tmp[k])]
       IN /\ local' = [local EXCEPT ![p].i = @ + 1,
                                    ![p].messages = @ \o new]
          /\ table' = InsertAll(IF local[p].i = 0 THEN {} ELSE table, new)
    /\ UNCHANGED <<server, confFile, txn, conf, pc, args, result, before, obs>>

\* Variant of remote_messages_fetch whose fetch marks the mails seen on the
\* server.
remote_messages_fetch_mark_seen(p) ==
    /\ pc[p] = "rm_fetch"
    /\ local[p].i < Len(local[p].folders)
    /\ LET f == local[p].folders[local[p].i + 1]
           tmp == fetch(f)
           new == [k \in 1..Len(tmp) |-> from_mail_message(f, tmp[k])]
       IN /\ local' = [local EXCEPT ![p].i = @ + 1,
                                    ![p].messages = @ \o new]
          /\ server' = [server EXCEPT ![f].mails =
                  [k \in 1..Len(@) |->
                      [@[k] EXCEPT !.flags =
                          IF "\\Seen" \in SeqToSet(@) THEN @ ELSE <<"\\Seen">> \o @]]]
    /\ UNCHANGED <<confFile, table, txn, conf, pc, args, result, before, obs>>

\* remote_messages, one turn of the loop: log in to the i-th folder and
\* fetch its mails; the session is closed when the with block is left.
remote_messages_fetch(p) ==
    /\ pc[p] = "rm_fetch"
    /\ local[p].i < Len(local[p].folders)
    /\ LET f == local[p].folders[local[p].i + 1]
           tmp == fetch(f)
           new == [k \in 1..Len(tmp) |-> from_mail_message(f, tmp[k])]
       IN local' = [local EXCEPT ![p].i = @ + 1,
                                 ![p].messages = @ \o new]
    /\ UNCHANGED <<server, confFile, table, txn, conf, pc, args, result, before, obs>>

\* remote_messages, one turn of the loop in which the login or the fetch
\* fails: the exception leaves remote_messages and update_cache.
remote_messages_fail(p) ==
    /\ pc[p] = "rm_fetch"
    /\ local[p].i < Len(local[p].folders)
    /\ Finish(p, Raised(MailboxLoginError))
    /\ UNCHANGED <<server, confFile, table, txn, conf, args, local, before, obs>>

\* Variant of remote_messages_return without the early return on an empty
\* aggregate.
remote_messages_return_always(p) ==
    /\ pc[p] = "rm_fetch"
    /\ local[p].i = Len(local[p].folders)
    /\ IF args[p].debug /\ local[p].folders = <<>>
       THEN Finish(p, Raised(UnboundLocalError))
       ELSE /\ pc' = [pc EXCEPT ![p] = "uc_delete"]
            /\ UNCHANGED result
    /\ UNCHANGED <<server, confFile, table, txn, conf, args, local, before, obs>>

\* remote_messages after the loop (lines 104-106) and update_cache lines
\* 159-162: with debug set the message reads the loop variable i, which is
\* unbound when no folder was iterated; an empty aggregate returns early.
remote_messages_return(p) ==
    /\ pc[p] = "rm_fetch"
    /\ local[p].i = Len(local[p].folders)
    /\ IF args[p].debug /\ local[p].folders = <<>>
       THEN Finish(p, Raised(UnboundLocalError))
       ELSE IF local[p].messages = <<>>
       THEN Finish(p, Returned(<<>>))
       ELSE /\ pc' = [pc EXCEPT ![p] = "uc_delete"]
            /\ UNCHANGED result
    /\ UNCHANGED <<server, confFile, table, txn, conf, args, local, before, obs>>

\* Variant of update_cache_delete that deletes nothing.
update_cache_delete_nothing(p) ==
    /\ pc[p] = "uc_delete"
    /\ IF txn.owner = 0
       THEN /\ txn' = [owner |-> p, view |-> table]
            /\ pc' = [pc EXCEPT ![p] = "uc_add"]
            /\ UNCHANGED result
       ELSE /\ Finish(p, Raised(OperationalError))
            /\ UNCHANGED txn
    /\ UNCHANGED <<server, confFile, table, conf, args, local, before, obs>>

\* Variant of update_cache_delete that runs outside a transaction: the rows
\* are gone from the table at once.
update_cache_delete_autocommit(p) ==
    /\ pc[p] = "uc_delete"
    /\ IF txn.owner = 0
       THEN /\ txn' = [owner |-> p, view |-> {}]
            /\ table' = {}
            /\ pc' = [pc EXCEPT ![p] = "uc_add"]
            /\ UNCHANGED result
       ELSE /\ Finish(p, Raised(OperationalError))
            /\ UNCHANGED <<txn, table>>
    /\ UNCHANGED <<server, confFile, conf, args, local, before, obs>>

\* update_cache, line 170: s.execute(delete(Message)) begins the session's
\* transaction and deletes every row in it; other connections keep seeing
\* the committed rows.
update_cache_delete(p) ==
    /\ pc[p] = "uc_delete"
    /\ IF txn.owner = 0
       THEN /\ txn' = [owner |-> p, view |-> {}]
            /\ pc' = [pc EXCEPT ![p] = "uc_add"]
            /\ UNCHANGED result
       ELSE /\ Finish(p, Raised(OperationalError))
            /\ UNCHANGED txn
    /\ UNCHANGED <<server, confFile, table, conf, args, local, before, obs>>

\* update_cache, line 171: s.add_all(messages) marks the messages pending.
update_cache_add_all(p) ==
    /\ pc[p] = "uc_add"
    /\ pc' = [pc EXCEPT ![p] = "uc_commit"]
    /\ UNCHANGED <<server, confFile, table, txn, conf, args, local, result, before, obs>>

\* update_cache, line 173: s.commit() inserts the pending messages and
\* commits the transaction.
update_cache_commit(p) ==
    /\ pc[p] = "uc_commit"
    /\ txn.owner = p
    /\ table' = InsertAll(txn.view, local[p].messages)
    /\ txn' = NoTxn
    /\ pc' = [pc EXCEPT ![p] = "uc_dellast"]
    /\ UNCHANGED <<server, confFile, conf, args, local, result, before, obs>>

\* Config.last_message deleter: remove_option raises NoSectionError when
\* the file has no [APPLICATION] section; otherwise the option is removed
\* and Config.update rewrites the file from this Config.
last_message_del(p) ==
    IF ~conf[p].hasApp
    THEN /\ Finish(p, Raised(NoSectionError))
         /\ UNCHANGED <<conf, confFile, obs>>
    ELSE /\ conf' = [conf EXCEPT ![p].last = None]
         /\ confFile' = conf'[p]
         /\ Finish(p, Returned(<<>>))

\* update_cache, line 176: del ctx.config.last_message.
update_cache_del_last(p) ==
    /\ pc[p] = "uc_dellast"
    /\ last_message_del(p)
    /\ UNCHANGED <<server, table, txn, args, local, before, obs>>

\* -------------------------------------------------------------- select_msg
\* Where the other invocations stand inside update_cache, noted when
\* invocation p queries the cache.
UpdatePositions(p) ==
    {pc[w] : w \in {q \in Procs \ {p} : args[q].cmd = "update"}}

\* Config.last_message getter: int() of the stored option; NoOptionError
\* becomes NoLastMessage, a missing [APPLICATION] section is not caught.
last_message_get_exc(c) ==
    IF ~c.hasApp THEN NoSectionError
    ELSE IF c.last = None THEN NoLastMessage
    ELSE NoExc

last_message_get(c) == int(Val(c.last))

\* select_msg, lines 257-262: the filter expression of the query.
select_msg_filter(p) ==
    /\ pc[p] = "sm_filter"
    /\ IF args[p].pattern = <<>>
       THEN IF last_message_get_exc(conf[p]) # NoExc
            THEN /\ Finish(p, Raised(last_message_get_exc(conf[p])))
                 /\ UNCHANGED local
            ELSE /\ local' = [local EXCEPT ![p].exp =
                        [kind |-> "id", id |-> last_message_get(conf[p]),
                         terms |-> <<>>]]
                 /\ pc' = [pc EXCEPT ![p] = "sm_query"]
                 /\ UNCHANGED result
       ELSE /\ local' = [local EXCEPT ![p].exp =
                    [kind |-> "subject", id |-> 0, terms |-> args[p].pattern]]
            /\ pc' = [pc EXCEPT ![p] = "sm_query"]
            /\ UNCHANGED result
    /\ UNCHANGED <<server, confFile, table, txn, conf, args, before, obs>>

\* Whether row r satisfies the filter expression: Message.id == id, or
\* or_ of Message.subject.contains(ptn) over the terms.
Satisfies(r, exp) ==
    IF exp.kind = "id" THEN r.id = Some(exp.id)
    ELSE \E k \in 1..Len(exp.terms) : contains(r.subject, exp.terms[k])

\* select_msg, lines 266-271: the rows the SELECT returns, in rowid order.
select_msg_query(p) ==
    /\ pc[p] = "sm_query"
    /\ local' = [local EXCEPT ![p].messages =
            InIdOrder({r \in table : Satisfies(r, local[p].exp)})]
    /\ pc' = [pc EXCEPT ![p] = "sm_match"]
    /\ obs' = [obs EXCEPT ![p] = UpdatePositions(p)]
    /\ UNCHANGED <<server, confFile, table, txn, conf, args, result, before>>

\* Config.last_message setter: set raises NoSectionError when the file has
\* no [APPLICATION] section; otherwise the option is set to str(val) and
\* Config.update rewrites the file from this Config.
last_message_set(p, val, ret) ==
    IF ~conf[p].hasApp
    THEN /\ Finish(p, Raised(NoSectionError))
         /\ UNCHANGED <<conf, confFile, obs>>
    ELSE /\ conf' = [conf EXCEPT ![p].last = Some(str(val))]
         /\ confFile' = conf'[p]
         /\ Finish(p, Returned(ret))

\* Variant of select_msg_match that takes the first of several rows.
select_msg_match_first(p) ==
    /\ pc[p] = "sm_match"
    /\ LET messages == local[p].messages
       IN IF Len(messages) >= 1
          THEN last_message_set(p, Val(messages[1].id), <<messages[1]>>)
          ELSE /\ Finish(p, Raised(NoneMatched))
               /\ UNCHANGED <<conf, confFile, obs>>
    /\ UNCHANGED <<server, table, txn, args, local, before, obs>>

\* Variant of select_msg_match that reports no row as NoLastMessage.
select_msg_match_nolast(p) ==
    /\ pc[p] = "sm_match"
    /\ LET messages == local[p].messages
       IN IF Len(messages) = 1
          THEN last_message_set(p, Val(messages[1].id), <<messages[1]>>)
          ELSE IF Len(messages) > 1
          THEN IF ~args[p].interactive
               THEN /\ Finish(p, Raised(MultipleMatched))
                    /\ UNCHANGED <<conf, confFile, obs>>
               ELSE \/ \E k \in 1..Len(messages) :
                         last_message_set(p, Val(messages[k].id), <<messages[k]>>)
                    \/ /\ Finish(p, Exited)
                       /\ UNCHANGED <<conf, confFile, obs>>
          ELSE /\ Finish(p, Raised(NoLastMessage))
               /\ UNCHANGED <<conf, confFile, obs>>
    /\ UNCHANGED <<server, table, txn, args, local, before, obs>>

\* select_msg, lines 275-289: one row is the target; several rows raise
\* when not interactive, else the user picks one in the dialog or cancels
\* it (exit(1)); no row raises. The target's id becomes the pointer.
select_msg_match(p) ==
    /\ pc[p] = "sm_match"
    /\ LET messages == local[p].messages
       IN IF Len(messages) = 1
          THEN last_message_set(p, Val(messages[1].id), <<messages[1]>>)
          ELSE IF Len(messages) > 1
          THEN IF ~args[p].interactive
               THEN /\ Finish(p, Raised(MultipleMatched))
                    /\ UNCHANGED <<conf, confFile, obs>>
               ELSE \/ \E k \in 1..Len(messages) :
                         last_message_set(p, Val(messages[k].id), <<messages[k]>>)
                    \/ /\ Finish(p, Exited)
                       /\ UNCHANGED <<conf, confFile, obs>>
          ELSE /\ Finish(p, Raised(NoneMatched))
               /\ UNCHANGED <<conf, confFile, obs>>
    /\ UNCHANGED <<server, table, txn, args, local, before, obs>>

\* --------------------------------------------------------- cached_messages
\* Characters in code point order, for Python's string comparison.
CodePoints ==
    <<" ", "%", "0", "1", "2", "3", "4", "5", "6", "7", "8", "9">>
    \o UpperCase \o <<"_">> \o LowerCase

Ord(c) == CHOOSE k \in 1..Len(CodePoints) : CodePoints[k] = c

\* The sender and folder names in use, in Python's string order.
NamesInOrder == <<"amy", "boss", "home", "work">>

Rank(name) == CHOOSE k \in 1..Len(NamesInOrder) : NamesInOrder[k] = name

\* Message.date: the parsed date_str (the timestamp when it does not parse;
\* every Date header in use parses).
Message_date(m) == Instant(m.date_str)

\* The sort key of the match statement, as a sequence of integers that
\* compares like the Python value.
sorter(m, sort) ==
    CASE sort = "subject" -> [k \in 1..Len(m.subject) |-> Ord(m.subject[k])]
      [] sort = "from" -> <<Rank(m.from_)>>
      [] sort = "config" -> <<Rank(m.config_name)>>
      [] OTHER -> <<Message_date(m)>>

\* a <= b for sequences of integers, lexicographically.
RECURSIVE LexLeq(_, _)
LexLeq(a, b) ==
    IF a = <<>> THEN TRUE
    ELSE IF b = <<>> THEN FALSE
    ELSE IF Head(a) # Head(b) THEN Head(a) < Head(b)
    ELSE LexLeq(Tail(a), Tail(b))

\* sorted(messages, key=sorter): stable, ascending.
RECURSIVE sorted(_, _)
sorted(messages, sort) ==
    IF messages = <<>> THEN <<>>
    ELSE LET n == Len(messages)
             front == sorted(SubSeq(messages, 1, n - 1), sort)
             x == messages[n]
             \* x goes after every element whose key is <= its key
             pos == Cardinality({k \in 1..Len(front) :
                        LexLeq(sorter(front[k], sort), sorter(x, sort))})
         IN SubSeq(front, 1, pos) \o <<x>> \o SubSeq(front, pos + 1, Len(front))

\* ORDER BY timestamp DESC as SQLite returns it: rows of equal timestamp in
\* rowid order.
RECURSIVE OrderByTimestampDesc(_)
OrderByTimestampDesc(rows) ==
    IF rows = {} THEN <<>>
    ELSE LET first == CHOOSE r \in rows : \A q \in rows :
                        \/ r.timestamp > q.timestamp
                        \/ r.timestamp = q.timestamp /\ Val(r.id) <= Val(q.id)
         IN <<first>> \o OrderByTimestampDesc(rows \ {first})

\* The statement of cached_messages, lines 125-130, on the committed rows.
cached_select(rows, folders, limit) ==
    LET kept == IF folders # <<>>
                THEN {r \in rows : r.config_name \in SeqToSet(folders)}
                ELSE rows
        ordered == OrderByTimestampDesc(kept)
    IN IF limit # 0 /\ limit < Len(ordered)
       THEN SubSeq(ordered, 1, limit)
       ELSE ordered

\* Variant of cached_messages that sorts first and cuts at the limit after.
cached_messages_sort_first(p) ==
    /\ pc[p] = "cm_query"
    /\ LET messages == cached_select(table, args[p].folders, 0)
           inorder == sorted(messages, args[p].sort)
           cut == IF args[p].limit # 0 /\ args[p].limit < Len(inorder)
                  THEN SubSeq(inorder, 1, args[p].limit) ELSE inorder
       IN /\ local' = [local EXCEPT ![p].messages = messages]
          /\ Finish(p, Returned(IF args[p].reverse THEN Reverse(cut) ELSE cut))
    /\ obs' = [obs EXCEPT ![p] = UpdatePositions(p)]
    /\ UNCHANGED <<server, confFile, table, txn, conf, args, before>>

\* cached_messages: one SELECT on the committed rows, then the sort.
cached_messages(p) ==
    /\ pc[p] = "cm_query"
    /\ LET messages == cached_select(table, args[p].folders, args[p].limit)
           inorder == sorted(messages, args[p].sort)
       IN /\ local' = [local EXCEPT ![p].messages = messages]
          /\ Finish(p, Returned(IF args[p].reverse THEN Reverse(inorder)
                                ELSE inorder))
    /\ obs' = [obs EXCEPT ![p] = UpdatePositions(p)]
    /\ UNCHANGED <<server, confFile, table, txn, conf, args, before>>

\* ------------------------------------------------------- the remote mailbox
\* The flag tokens the commands set (read: \Seen and TERMAIL; flag and
\* unflag: \Flagged), in the order the server lists the flags of a mail.
FlagTokens == <<"\\Seen", "\\Flagged", "TERMAIL">>

\* The flags of a set as the server lists them.
Canon(S) == SelectSeq(FlagTokens, LAMBDA t : t \in S)

\* str(msg.uid), the identifier sent with a request.
uid_str(uid) == IF uid = None THEN <<"N", "o", "n", "e">> ELSE str(Val(uid))

\* MailBox.flag(uid, flag, val) on the stored mails: the mail with that UID
\* gains or loses the flag; no mail has a UID that does not name one.
MailBox_flag(mails, uid, flag, val) ==
    [k \in 1..Len(mails) |->
        IF str(mails[k].uid) = uid
        THEN [mails[k] EXCEPT !.flags =
                Canon(IF val THEN SeqToSet(@) \cup {flag}
                      ELSE SeqToSet(@) \ {flag})]
        ELSE mails[k]]

\* MailBox.delete(uid) on the stored mails: the mail with that UID is gone.
MailBox_delete(mails, uid) == SelectSeq(mails, LAMBDA m : str(m.uid) # uid)

\* A request of kind op for the message msg, as sent (ok) or as failed with
\* the login. closed: the connection that MailBox(host) opened was closed
\* when the operation was left. It is closed by the exit of the with block,
\* which is entered once login() has returned; a login that raises leaves
\* the statement before the block is entered.
Request(op, msg, ok) ==
    [op |-> op, folder |-> msg.config_name, uid |-> uid_str(msg.uid), ok |-> ok,
     closed |-> ok]

\* ---------------------------------------------------------------- set_flag
\* A call of set_flag or delete_msg on the Message m starts: what the call
\* before it did is kept in prev.
StartCall(p, op, m, flag, val) ==
    local' = [local EXCEPT
        ![p].prev = IF local[p].op = "" THEN NoCall
                    ELSE [op |-> local[p].op, flag |-> local[p].flag,
                          val |-> local[p].val,
                          had |-> local[p].flag \in SeqToSet(local[p].flags0),
                          status |-> result[p].status,
                          remote |-> local[p].remote, writes |-> local[p].writes],
        ![p].msg = Some(m), ![p].op = op, ![p].flag = flag, ![p].val = val,
        ![p].flags0 = m.flags, ![p].remote = <<>>, ![p].writes = 0]

\* set_flag, lines 195-200: nothing to do when the flag already has the
\* value; else the folder configuration of the message is looked up.
set_flag_check(p) ==
    /\ pc[p] = "sf_check"
    /\ LET msg == Val(local[p].msg)
       IN IF local[p].val = (local[p].flag \in SeqToSet(msg.flags))
          THEN Finish(p, Returned(<<>>))
          ELSE IF msg.config_name \notin SeqToSet(Config_folders(conf[p]))
          THEN Finish(p, Raised(FolderConfigNotFound))
          ELSE /\ pc' = [pc EXCEPT ![p] = "sf_remote"]
               /\ UNCHANGED result
    /\ UNCHANGED <<server, confFile, table, txn, conf, args, local, before, obs>>

\* set_flag, lines 201-202: log in and set the flag on the server.
set_flag_remote(p) ==
    /\ pc[p] = "sf_remote"
    /\ LET msg == Val(local[p].msg)
       IN /\ server' = [server EXCEPT ![msg.config_name].mails =
                  MailBox_flag(@, uid_str(msg.uid), local[p].flag, local[p].val)]
          /\ local' = [local EXCEPT ![p].remote = Append(@, Request("flag", msg, TRUE))]
    /\ pc' = [pc EXCEPT ![p] = "sf_write"]
    /\ UNCHANGED <<confFile, table, txn, conf, args, result, before, obs>>

\* Variant of set_flag_remote_fail that goes on to the cache write after the
\* failure.
set_flag_remote_fail_ignored(p) ==
    /\ pc[p] = "sf_remote"
    /\ local' = [local EXCEPT ![p].remote =
            Append(@, Request("flag", Val(local[p].msg), FALSE))]
    /\ pc' = [pc EXCEPT ![p] = "sf_write"]
    /\ UNCHANGED <<server, confFile, table, txn, conf, args, result, before, obs>>

\* set_flag, lines 201-202, when the login fails: the exception leaves
\* set_flag. (A failure of the request inside the block leaves it the same
\* way, after the exit of the block has closed the connection.)
set_flag_remote_fail(p) ==
    /\ pc[p] = "sf_remote"
    /\ local' = [local EXCEPT ![p].remote =
            Append(@, Request("flag", Val(local[p].msg), FALSE))]
    /\ Finish(p, Raised(MailboxLoginError))
    /\ UNCHANGED <<server, confFile, table, txn, conf, args, before, obs>>

\* The new flags of set_flag, lines 206-209.
new_flags(msg, flag, val) ==
    IF val THEN <<flag>> \o msg.flags
    ELSE SelectSeq(msg.flags, LAMBDA f : f # flag)

\* Variant of set_flag_write that appends the flag at the end.
set_flag_write_append(p) ==
    /\ pc[p] = "sf_write"
    /\ LET msg == Val(local[p].msg)
           new == IF local[p].val THEN Append(msg.flags, local[p].flag)
                  ELSE SelectSeq(msg.flags, LAMBDA f : f # local[p].flag)
       IN IF txn.owner = 0
          THEN /\ table' = {IF r.id = msg.id THEN [r EXCEPT !.flags = new] ELSE r :
                              r \in table}
               /\ local' = [local EXCEPT ![p].msg = Some([msg EXCEPT !.flags = new]),
                                         ![p].writes = @ + 1]
               /\ Finish(p, Returned(<<>>))
          ELSE /\ Finish(p, Raised(OperationalError))
               /\ UNCHANGED <<table, local>>
    /\ UNCHANGED <<server, confFile, txn, conf, args, before, obs>>

\* Variant of set_flag_write that leaves the Message object in memory as it
\* was.
set_flag_write_forget(p) ==
    /\ pc[p] = "sf_write"
    /\ LET msg == Val(local[p].msg)
           new == new_flags(msg, local[p].flag, local[p].val)
       IN IF txn.owner = 0
          THEN /\ table' = {IF r.id = msg.id THEN [r EXCEPT !.flags = new] ELSE r :
                              r \in table}
               /\ local' = [local EXCEPT ![p].writes = @ + 1]
               /\ Finish(p, Returned(<<>>))
          ELSE /\ Finish(p, Raised(OperationalError))
               /\ UNCHANGED <<table, local>>
    /\ UNCHANGED <<server, confFile, txn, conf, args, before, obs>>

\* set_flag, lines 206-219: the row with the id of the message gets the new
\* flags in a transaction of its own (the write fails while another
\* connection holds the write lock), then msg.flags is assigned.
set_flag_write(p) ==
    /\ pc[p] = "sf_write"
    /\ LET msg == Val(local[p].msg)
           new == new_flags(msg, local[p].flag, local[p].val)
       IN IF txn.owner = 0
          THEN /\ table' = {IF r.id = msg.id THEN [r EXCEPT !.flags = new] ELSE r :
                              r \in table}
               /\ local' = [local EXCEPT ![p].msg = Some([msg EXCEPT !.flags = new]),
                                         ![p].writes = @ + 1]
               /\ Finish(p, Returned(<<>>))
          ELSE /\ Finish(p, Raised(OperationalError))
               /\ UNCHANGED <<table, local>>
    /\ UNCHANGED <<server, confFile, txn, conf, args, before, obs>>

\* -------------------------------------------------------------- delete_msg
\* Variant of delete_msg_assert without the assertion on msg.uid.
delete_msg_assert_skipped(p) ==
    /\ pc[p] = "dm_assert"
    /\ LET msg == Val(local[p].msg)
       IN IF msg.config_name \notin SeqToSet(Config_folders(conf[p]))
          THEN Finish(p, Raised(FolderConfigNotFound))
          ELSE /\ pc' = [pc EXCEPT ![p] = "dm_remote"]
               /\ UNCHANGED result
    /\ UNCHANGED <<server, confFile, table, txn, conf, args, local, before, obs>>

\* delete_msg, lines 228-229: the assertion on msg.uid, then the folder
\* configuration of the message is looked up.
delete_msg_assert(p) ==
    /\ pc[p] = "dm_assert"
    /\ LET msg == Val(local[p].msg)
       IN IF msg.uid = None
          THEN Finish(p, Raised(AssertionError))
          ELSE IF msg.config_name \notin SeqToSet(Config_folders(conf[p]))
          THEN Finish(p, Raised(FolderConfigNotFound))
          ELSE /\ pc' = [pc EXCEPT ![p] = "dm_remote"]
               /\ UNCHANGED result
    /\ UNCHANGED <<server, confFile, table, txn, conf, args, local, before, obs>>

\* delete_msg, lines 230-231: log in and delete the message on the server.
delete_msg_remote(p) ==
    /\ pc[p] = "dm_remote"
    /\ LET msg == Val(local[p].msg)
           f == msg.config_name
       IN /\ server' = [server EXCEPT
                  ![f].mails = MailBox_delete(@, uid_str(msg.uid)),
                  ![f].deleted = @ \cup {m.uid : m \in
                        {server[f].mails[k] : k \in
                            {j \in 1..Len(server[f].mails) :
                                str(server[f].mails[j].uid) = uid_str(msg.uid)}}}]
          /\ local' = [local EXCEPT ![p].remote = Append(@, Request("delete", msg, TRUE))]
    /\ pc' = [pc EXCEPT ![p] = "dm_write"]
    /\ UNCHANGED <<confFile, table, txn, conf, args, result, before, obs>>

\* delete_msg, lines 230-231, when the login fails.
delete_msg_remote_fail(p) ==
    /\ pc[p] = "dm_remote"
    /\ local' = [local EXCEPT ![p].remote =
            Append(@, Request("delete", Val(local[p].msg), FALSE))]
    /\ Finish(p, Raised(MailboxLoginError))
    /\ UNCHANGED <<server, confFile, table, txn, conf, args, before, obs>>

\* Variant of delete_msg_write that deletes every row of the message's
\* folder.
delete_msg_write_folder(p) ==
    /\ pc[p] = "dm_write"
    /\ LET msg == Val(local[p].msg)
       IN IF txn.owner = 0
          THEN /\ table' = {r \in table : r.config_name # msg.config_name}
               /\ local' = [local EXCEPT ![p].writes = @ + 1]
               /\ Finish(p, Returned(<<>>))
          ELSE /\ Finish(p, Raised(OperationalError))
               /\ UNCHANGED <<table, local>>
    /\ UNCHANGED <<server, confFile, txn, conf, args, before, obs>>

\* Variant of delete_msg_write that removes the pointer as well.
delete_msg_write_clears(p) ==
    /\ pc[p] = "dm_write"
    /\ LET msg == Val(local[p].msg)
       IN IF txn.owner = 0
          THEN /\ table' = {r \in table : r.id # msg.id}
               /\ local' = [local EXCEPT ![p].writes = @ + 1]
               /\ conf' = [conf EXCEPT ![p].last = None]
               /\ confFile' = conf'[p]
               /\ Finish(p, Returned(<<>>))
          ELSE /\ Finish(p, Raised(OperationalError))
               /\ UNCHANGED <<table, local, conf, confFile>>
    /\ UNCHANGED <<server, txn, args, before, obs>>

\* delete_msg, lines 235-240: the row with the id of the message is deleted
\* in a transaction of its own.
delete_msg_write(p) ==
    /\ pc[p] = "dm_write"
    /\ LET msg == Val(local[p].msg)
       IN IF txn.owner = 0
          THEN /\ table' = {r \in table : r.id # msg.id}
               /\ local' = [local EXCEPT ![p].writes = @ + 1]
               /\ Finish(p, Returned(<<>>))
          ELSE /\ Finish(p, Raised(OperationalError))
               /\ UNCHANGED <<table, local>>
    /\ UNCHANGED <<server, confFile, txn, conf, args, before, obs>>

\* ------------------------------------------------- single message commands
\* read, line 449: set_flag(ctx, msg, r'\Seen', True) on the selected message.
read(p) ==
    /\ pc[p] = "cmd_body"
    /\ args[p].cmd = "read"
    /\ StartCall(p, "set_flag", result[p].ret[1], "\\Seen", TRUE)
    /\ pc' = [pc EXCEPT ![p] = "sf_check"]
    /\ UNCHANGED <<server, confFile, table, txn, conf, args, result, before, obs>>

\* read, line 450: set_flag(ctx, msg, 'TERMAIL', True); the message is then
\* printed.
read_termail(p) ==
    /\ pc[p] = "cmd_body2"
    /\ args[p].cmd = "read"
    /\ StartCall(p, "set_flag", Val(local[p].msg), "TERMAIL", TRUE)
    /\ pc' = [pc EXCEPT ![p] = "sf_check"]
    /\ UNCHANGED <<server, confFile, table, txn, conf, args, result, before, obs>>

\* flag, line 645: set_flag(ctx, msg, r'\Flagged', True).
flag(p) ==
    /\ pc[p] = "cmd_body"
    /\ args[p].cmd = "flag"
    /\ StartCall(p, "set_flag", result[p].ret[1], "\\Flagged", TRUE)
    /\ pc' = [pc EXCEPT ![p] = "sf_check"]
    /\ UNCHANGED <<server, confFile, table, txn, conf, args, result, before, obs>>

\* unflag, line 660: set_flag(ctx, msg, r'\Flagged', False).
unflag(p) ==
    /\ pc[p] = "cmd_body"
    /\ args[p].cmd = "unflag"
    /\ StartCall(p, "set_flag", result[p].ret[1], "\\Flagged", FALSE)
    /\ pc' = [pc EXCEPT ![p] = "sf_check"]
    /\ UNCHANGED <<server, confFile, table, txn, conf, args, result, before, obs>>

\* delete, line 629: delete_msg(ctx, msg).
delete(p) ==
    /\ pc[p] = "cmd_body"
    /\ args[p].cmd = "delete"
    /\ StartCall(p, "delete_msg", result[p].ret[1], "", FALSE)
    /\ pc' = [pc EXCEPT ![p] = "dm_assert"]
    /\ UNCHANGED <<server, confFile, table, txn, conf, args, result, before, obs>>

\* delete, line 630: del ctx.config.last_message.
delete_del_last(p) ==
    /\ pc[p] = "cmd_dellast"
    /\ last_message_del(p)
    /\ UNCHANGED <<server, table, txn, args, local, before, obs>>

\* ---------------------------------------------------------- select_folders
\* The characters of the folder names, and the primary option of each
\* folder section.
NameChars == [work |-> <<"w", "o", "r", "k">>, home |-> <<"h", "o", "m", "e">>]
Primary == [work |-> TRUE, home |-> FALSE]

\* The folder patterns given to the listing commands.
FolderPatterns == {<<>>, << <<"o">> >>, << <<"h", "o">> >>, << <<"x">> >>}

\* select_folders as a function of the configured folders: the error it
\* raises (NoExc: none) and the folders it returns.
select_folders_exc(folders, pattern, all_folders) ==
    LET match(name) == \A k \in 1..Len(pattern) : IsSubstring(pattern[k], NameChars[name])
    IN IF pattern = <<>>
       THEN IF SelectSeq(folders, LAMBDA f : all_folders \/ Primary[f]) = <<>>
            THEN NoFolders ELSE NoExc
       ELSE IF SelectSeq(folders, match) = <<>> THEN NoFoldersMatching ELSE NoExc

select_folders_ret(folders, pattern, all_folders) ==
    LET match(name) == \A k \in 1..Len(pattern) : IsSubstring(pattern[k], NameChars[name])
        matching == SelectSeq(folders, match)
    IN IF pattern = <<>>
       THEN SelectSeq(folders, LAMBDA f : all_folders \/ Primary[f])
       ELSE IF all_folders \/ \A k \in 1..Len(matching) : ~Primary[matching[k]]
       THEN matching
       ELSE SelectSeq(matching, LAMBDA f : Primary[f])

\* Variant of select_folders that returns every matching folder, primary or
\* not.
select_folders_unnarrowed(p) ==
    /\ pc[p] = "fo_select"
    /\ LET folders == Config_folders(conf[p])
           exc == select_folders_exc(folders, args[p].pattern, args[p].all_folders)
       IN IF exc # NoExc
          THEN /\ Finish(p, Raised(exc))
               /\ UNCHANGED args
          ELSE /\ args' = [args EXCEPT ![p].folders =
                      select_folders_ret(folders, args[p].pattern, TRUE)]
               /\ Finish(p, Returned(<<>>))
    /\ UNCHANGED <<server, confFile, table, txn, conf, local, before, obs>>

\* list_, unread, flagged: folders = select_folders(ctx, pattern, all_folders),
\* the folders argument of the cached_messages call that follows.
select_folders(p) ==
    /\ pc[p] = "fo_select"
    /\ LET folders == Config_folders(conf[p])
           exc == select_folders_exc(folders, args[p].pattern, args[p].all_folders)
       IN IF exc # NoExc
          THEN /\ Finish(p, Raised(exc))
               /\ UNCHANGED args
          ELSE /\ args' = [args EXCEPT ![p].folders =
                      select_folders_ret(folders, args[p].pattern, args[p].all_folders)]
               /\ Finish(p, Returned(<<>>))
    /\ UNCHANGED <<server, confFile, table, txn, conf, local, before, obs>>

\* list_, unread, flagged after cached_messages: bail (exit) when there is
\* no message, else the messages the command prints.
list_print(p) ==
    /\ pc[p] = "ls_print"
    /\ LET messages == result[p].ret
           shown == CASE args[p].cmd = "unread" ->
                           SelectSeq(messages, LAMBDA m : "\\Seen" \notin SeqToSet(m.flags))
                      [] args[p].cmd = "flagged" ->
                           SelectSeq(messages, LAMBDA m : "\\Flagged" \in SeqToSet(m.flags))
                      [] OTHER -> messages
       IN IF messages = <<>> THEN Finish(p, Exited)
          ELSE Finish(p, Returned(shown))
    /\ UNCHANGED <<server, confFile, table, txn, conf, args, local, before, obs>>

\* ------------------------------------------- a program calling the functions
\* A program builds its context (as cli does) and goes on to call set_flag
\* and delete_msg on Message objects it loads from the cache.
api_start(p) ==
    cli(p, [NoArgs EXCEPT !.cmd = "api"])

\* The program loads the row r from the cache as a Message object.
api_hold(p, r) ==
    /\ pc[p] = "ready"
    /\ r \in table
    /\ local' = [local EXCEPT ![p] = [NoLocal EXCEPT !.msg = Some(r)]]
    /\ result' = [result EXCEPT ![p] = NoResult]
    /\ UNCHANGED <<server, confFile, table, txn, conf, pc, args, before, obs>>

\* The program calls set_flag(ctx, msg, token, val) on the object it holds.
api_set_flag(p, token, val) ==
    /\ pc[p] = "ready"
    /\ local[p].msg # None
    /\ StartCall(p, "set_flag", Val(local[p].msg), token, val)
    /\ before' = [before EXCEPT ![p] = [rows |-> table, last |-> confFile.last]]
    /\ pc' = [pc EXCEPT ![p] = "sf_check"]
    /\ UNCHANGED <<server, confFile, table, txn, conf, args, result, obs>>

\* The program calls delete_msg(ctx, msg) on the object it holds.
api_delete_msg(p) ==
    /\ pc[p] = "ready"
    /\ local[p].msg # None
    /\ StartCall(p, "delete_msg", Val(local[p].msg), "", FALSE)
    /\ before' = [before EXCEPT ![p] = [rows |-> table, last |-> confFile.last]]
    /\ pc' = [pc EXCEPT ![p] = "dm_assert"]
    /\ UNCHANGED <<server, confFile, table, txn, conf, args, result, obs>>

\* ------------------------------------------------------------------- Next
UpdateCommands ==
    {[NoArgs EXCEPT !.cmd = "update", !.debug = d] : d \in BOOLEAN}

SelectCommands ==
    {[NoArgs EXCEPT !.cmd = "select", !.pattern = ptn, !.interactive = ia] :
        ptn \in Patterns, ia \in BOOLEAN}

\* cached_messages with its default arguments, and sorted by subject in
\* ascending and in descending order.
CachedCommands ==
    {[NoArgs EXCEPT !.cmd = "cached"]}
    \cup {[NoArgs EXCEPT !.cmd = "cached", !.sort = "subject", !.reverse = d] :
             d \in BOOLEAN}

Commands == UpdateCommands \cup SelectCommands \cup CachedCommands

Step(p) ==
    \/ \E a \in Commands : cli(p, a)
    \/ update_cache_begin(p)
    \/ remote_messages_fetch(p)
    \/ remote_messages_fail(p)
    \/ remote_messages_return(p)
    \/ update_cache_delete(p)
    \/ update_cache_add_all(p)
    \/ update_cache_commit(p)
    \/ update_cache_del_last(p)
    \/ select_msg_filter(p)
    \/ select_msg_query(p)
    \/ select_msg_match(p)
    \/ cached_messages(p)
    \/ Kill(p)
    \/ Exit(p)

Environment ==
    \/ \E f \in SeqToSet(FolderNames) : RemoteArrive(f)
    \/ \E f \in SeqToSet(FolderNames), k \in 1..MaxMails : RemoteExpunge(f, k)

\* One invocation at a time, as the tool is meant to be used.
Next == Step(1) \/ Environment

Spec == Init /\ [][Next]_vars

\* Two invocations side by side: one updates the cache while the other
\* reads it.
Writer(p) ==
    \/ cli(p, [NoArgs EXCEPT !.cmd = "update"])
    \/ update_cache_begin(p)
    \/ remote_messages_fetch(p)
    \/ remote_messages_fail(p)
    \/ remote_messages_return(p)
    \/ update_cache_delete(p)
    \/ update_cache_add_all(p)
    \/ update_cache_commit(p)
    \/ update_cache_del_last(p)
    \/ Kill(p)
    \/ Exit(p)

Reader(p) ==
    \/ cli(p, [NoArgs EXCEPT !.cmd = "cached"])
    \/ cli(p, [NoArgs EXCEPT !.cmd = "select", !.pattern = << <<"I","n","v">> >>])
    \/ cached_messages(p)
    \/ select_msg_filter(p)
    \/ select_msg_query(p)
    \/ select_msg_match(p)
    \/ Exit(p)

NextConcurrent == Writer(1) \/ Reader(2) \/ Environment

\* A configuration with folders to fetch from and a pointer store.
InitConcurrent == Init /\ confFile.folders # <<>> /\ confFile.hasApp

SpecConcurrent == InitConcurrent /\ [][NextConcurrent]_vars

\* The program calls cached_messages(ctx).
api_cached(p) ==
    /\ pc[p] = "ready"
    /\ local' = [local EXCEPT ![p] = NoLocal]
    /\ result' = [result EXCEPT ![p] = NoResult]
    /\ pc' = [pc EXCEPT ![p] = "cm_query"]
    /\ UNCHANGED <<server, confFile, table, txn, conf, args, before, obs>>

\* The program calls select_msg(ctx, pattern, False).
api_select(p, pattern) ==
    /\ pc[p] = "ready"
    /\ args' = [args EXCEPT ![p].pattern = pattern]
    /\ local' = [local EXCEPT ![p] = NoLocal]
    /\ result' = [result EXCEPT ![p] = NoResult]
    /\ before' = [before EXCEPT ![p] = [rows |-> table, last |-> confFile.last]]
    /\ pc' = [pc EXCEPT ![p] = "sm_filter"]
    /\ UNCHANGED <<server, confFile, table, txn, conf, obs>>

\* The program takes the k-th message a query returned.
api_take(p, k) ==
    /\ pc[p] = "ready"
    /\ result[p].at \in {"cm_query", "sm_match"}
    /\ result[p].status = "return"
    /\ k \in 1..Len(result[p].ret)
    /\ local' = [local EXCEPT ![p] = [NoLocal EXCEPT !.msg = Some(result[p].ret[k])]]
    /\ result' = [result EXCEPT ![p] = NoResult]
    /\ UNCHANGED <<server, confFile, table, txn, conf, pc, args, before, obs>>

\* A program calling set_flag and delete_msg, on a cache that was filled by
\* an update from the mailboxes as they are.
ApiTokens == {"\\Seen", "\\Flagged"}

\* Mailbox f after it received n mails.
Mailbox(f, n) ==
    [uidnext |-> n + 1, mails |-> [k \in 1..n |-> MailOf(f, k)], deleted |-> {}]

\* The messages an update fetches from all mailboxes; with nouid the first
\* mail comes without its UID.
FetchedAll(nouid) ==
    LET of(f) == LET tmp == fetch(f)
                 IN [k \in 1..Len(tmp) |-> from_mail_message(f, tmp[k])]
        all == of(FolderNames[1]) \o of(FolderNames[2])
    IN [k \in 1..Len(all) |->
          IF nouid /\ k = 1
          THEN from_mail_message(all[k].config_name,
                  [uid |-> None, subject |-> all[k].subject, from_ |-> all[k].from_,
                   date_str |-> all[k].date_str, flags |-> all[k].flags,
                   date |-> all[k].timestamp])
          ELSE all[k]]

InitApi ==
    /\ \E nw, nh \in 0..MaxMails :
          /\ nw + nh <= MaxMails
          /\ nw + nh >= 1
          /\ server = [work |-> Mailbox("work", nw), home |-> Mailbox("home", nh)]
    /\ confFile \in {c \in ConfigFiles : c.folders # <<>> /\ c.hasApp}
    /\ \E nouid \in BOOLEAN : table = InsertAll({}, FetchedAll(nouid))
    /\ txn = NoTxn
    /\ conf = [p \in Procs |-> NoConf]
    /\ pc = [p \in Procs |-> "idle"]
    /\ args = [p \in Procs |-> NoArgs]
    /\ local = [p \in Procs |-> NoLocal]
    /\ result = [p \in Procs |-> NoResult]
    /\ before = [p \in Procs |-> NoBefore]
    /\ obs = [p \in Procs |-> {}]

Program(p) ==
    \/ api_start(p)
    \/ \E r \in table : api_hold(p, r)
    \/ \E token \in ApiTokens, val \in BOOLEAN : api_set_flag(p, token, val)
    \/ api_delete_msg(p)
    \/ set_flag_check(p)
    \/ set_flag_remote(p)
    \/ set_flag_remote_fail(p)
    \/ set_flag_write(p)
    \/ delete_msg_assert(p)
    \/ delete_msg_remote(p)
    \/ delete_msg_remote_fail(p)
    \/ delete_msg_write(p)

NextApi == Program(1)

SpecApi == InitApi /\ [][NextApi]_vars


\* A program that selects and lists messages and deletes some of them.
Deleter(p) ==
    \/ api_start(p)
    \/ api_cached(p)
    \/ \E ptn \in {<<>>, << <<"I","n","v">> >>, << <<"R","e","p">> >>} : api_select(p, ptn)
    \/ \E k \in 1..MaxMails : api_take(p, k)
    \/ api_delete_msg(p)
    \/ cached_messages(p)
    \/ select_msg_filter(p)
    \/ select_msg_query(p)
    \/ select_msg_match(p)
    \/ delete_msg_assert(p)
    \/ delete_msg_remote(p)
    \/ delete_msg_remote_fail(p)
    \/ delete_msg_write(p)

NextDelete == Deleter(1)

SpecDelete == InitApi /\ [][NextDelete]_vars

\* A program that holds two Message objects it loaded from the cache (the
\* objects are those of invocations 1 and 2) and calls set_flag and
\* delete_msg on them one call after the other. The cache it starts on
\* mirrors the mailboxes: every mail has a row with its UID and its flags,
\* and every folder of the rows is configured.
InitMirror ==
    /\ InitApi
    /\ confFile.folders = FolderNames
    /\ table = InsertAll({}, FetchedAll(FALSE))

\* The calls on the first object, loaded once: set_flag with \Seen, and
\* delete_msg.
Holder(p) ==
    \/ api_start(p)
    \/ local[p].msg = None /\ \E r \in table : api_hold(p, r)
    \/ \E val \in BOOLEAN : api_set_flag(p, "\\Seen", val)
    \/ api_delete_msg(p)
    \/ set_flag_check(p)
    \/ set_flag_remote(p)
    \/ set_flag_remote_fail(p)
    \/ set_flag_write(p)
    \/ delete_msg_assert(p)
    \/ delete_msg_remote(p)
    \/ delete_msg_remote_fail(p)
    \/ delete_msg_write(p)

\* The calls on the second object, loaded once: set_flag with \Flagged.
Flagger(p) ==
    \/ api_start(p)
    \/ local[p].msg = None /\ \E r \in table : api_hold(p, r)
    \/ api_set_flag(p, "\\Flagged", TRUE)
    \/ set_flag_check(p)
    \/ set_flag_remote(p)
    \/ set_flag_remote_fail(p)
    \/ set_flag_write(p)

\* No call is in progress on the object of p.
AtRest(p) == pc[p] \in {"idle", "ready"}

NextMirror ==
    \/ AtRest(2) /\ Holder(1)
    \/ AtRest(1) /\ Flagger(2)

SpecMirror == InitMirror /\ [][NextMirror]_vars

\* The command lines of the CLI: update, the listing commands with and
\* without --update, and the single message commands, whose callback selects
\* interactively.
CliCommands ==
    {[NoArgs EXCEPT !.cmd = "update"]}
    \cup {[NoArgs EXCEPT !.cmd = c, !.update = u, !.pattern = fp, !.limit = 20] :
             c \in ListCommands, u \in BOOLEAN, fp \in {<<>>, << <<"h", "o">> >>}}
    \cup {[NoArgs EXCEPT !.cmd = c, !.pattern = ptn, !.interactive = TRUE] :
             c \in SingleMessageCommands,
             ptn \in {<<>>, << <<"I","n","v">> >>}}

\* One invocation of the CLI: the command runs to its end, or the process is
\* stopped on the way (run, lines 26-27: a keyboard interrupt ends the
\* command where it stands).
Invocation(p) ==
    \/ \E a \in CliCommands : cli(p, a)
    \/ update_cache_begin(p)
    \/ remote_messages_fetch(p)
    \/ remote_messages_fail(p)
    \/ remote_messages_return(p)
    \/ update_cache_delete(p)
    \/ update_cache_add_all(p)
    \/ update_cache_commit(p)
    \/ update_cache_del_last(p)
    \/ select_msg_filter(p)
    \/ select_msg_query(p)
    \/ select_msg_match(p)
    \/ select_folders(p)
    \/ cached_messages(p)
    \/ list_print(p)
    \/ read(p)
    \/ read_termail(p)
    \/ flag(p)
    \/ unflag(p)
    \/ delete(p)
    \/ delete_del_last(p)
    \/ set_flag_check(p)
    \/ set_flag_remote(p)
    \/ set_flag_remote_fail(p)
    \/ set_flag_write(p)
    \/ delete_msg_assert(p)
    \/ delete_msg_remote(p)
    \/ delete_msg_remote_fail(p)
    \/ delete_msg_write(p)
    \/ Kill(p)
    \/ Exit(p)

NextCommands == Invocation(1) \/ Environment

\* A configuration with the folder work and a pointer store.
InitCommands == Init /\ confFile.folders = <<"work">> /\ confFile.hasApp

SpecCommands == InitCommands /\ [][NextCommands]_vars

\* The listing commands with their options, and cached_messages called with
\* a folder list and a limit of its own.
ListingCommands ==
    {[NoArgs EXCEPT !.cmd = c, !.pattern = fp, !.all_folders = a, !.limit = l,
                    !.sort = s, !.reverse = d] :
        c \in ListCommands, fp \in FolderPatterns, a \in BOOLEAN,
        l \in (0..MaxMails) \cup {20}, s \in {"date", "subject"}, d \in BOOLEAN}
    \cup {[NoArgs EXCEPT !.cmd = "cached", !.folders = F, !.limit = l, !.sort = s] :
        F \in {<<>>, <<"work">>, <<"home">>, <<"work", "home">>},
        l \in 0..MaxMails, s \in {"date", "subject"}}

\* A cache filled from the mailboxes, under any configuration file.
InitList ==
    /\ \E nw, nh \in 0..MaxMails :
          /\ nw + nh <= MaxMails
          /\ server = [work |-> Mailbox("work", nw), home |-> Mailbox("home", nh)]
    /\ confFile \in ConfigFiles
    /\ table = InsertAll({}, FetchedAll(FALSE))
    /\ txn = NoTxn
    /\ conf = [p \in Procs |-> NoConf]
    /\ pc = [p \in Procs |-> "idle"]
    /\ args = [p \in Procs |-> NoArgs]
    /\ local = [p \in Procs |-> NoLocal]
    /\ result = [p \in Procs |-> NoResult]
    /\ before = [p \in Procs |-> NoBefore]
    /\ obs = [p \in Procs |-> {}]

NextList ==
    \/ \E a \in ListingCommands : cli(1, a)
    \/ select_folders(1)
    \/ cached_messages(1)
    \/ list_print(1)
    \/ Exit(1)

SpecList == InitList /\ [][NextList]_vars

\* ------------------------------------------------- Message.__eq__, __hash__
\* hash() of an integer below the modulus of the hash: the integer itself,
\* but -2 for -1, which the interpreter keeps as its error value.
hash_int(n) == IF n = -1 THEN -2 ELSE n

\* Message.__hash__: the hash of the tuple (uid, subject, date_str), which
\* is computed from the hashes of its three elements. The hash of None and
\* of a string are taken as values no other element has, and the tuple hash
\* as different for different element hashes.
Message_hash(m) ==
    <<IF m.uid = None THEN <<>> ELSE <<hash_int(Val(m.uid))>>,
      m.subject, m.date_str>>

\* Message.__eq__: hash(self) == hash(other).
Message_eq(a, b) == Message_hash(a) = Message_hash(b)

\* Message objects as a program may build them.
MessageRecords ==
    [id : {Some(1), Some(2)}, config_name : {"work"},
     uid : {None, Some(1), Some(2), Some(-1), Some(-2)},
     subject : {<<"I","n","v">>, <<"R","e","p","1">>},
     from_ : {"boss"}, date_str : {"d1", "d2"},
     flags : {<<>>, <<"\\Seen">>}, timestamp : {1}]

\* A program holds two Message objects.
InitEq ==
    /\ server = [f \in SeqToSet(FolderNames) |->
                    [uidnext |-> 1, mails |-> <<>>, deleted |-> {}]]
    /\ confFile = [folders |-> FolderNames, hasApp |-> TRUE, last |-> None]
    /\ table = {}
    /\ txn = NoTxn
    /\ conf = [p \in Procs |-> NoConf]
    /\ pc = [p \in Procs |-> "idle"]
    /\ args = [p \in Procs |-> NoArgs]
    /\ \E a, b \in MessageRecords :
          local = [p \in Procs |->
                      IF p = 1 THEN [NoLocal EXCEPT !.messages = <<a, b>>] ELSE NoLocal]
    /\ result = [p \in Procs |-> NoResult]
    /\ before = [p \in Procs |-> NoBefore]
    /\ obs = [p \in Procs |-> {}]

\* The program evaluates a == b.
compare(p) ==
    /\ pc[p] = "idle"
    /\ Len(local[p].messages) = 2
    /\ pc' = [pc EXCEPT ![p] = "done"]
    /\ result' = [result EXCEPT ![p] =
            Returned(<<Message_eq(local[p].messages[1], local[p].messages[2])>>)]
    /\ UNCHANGED <<server, confFile, table, txn, conf, args, local, before, obs>>

SpecEq == InitEq /\ [][compare(1)]_vars

\* The commands details, flag, unflag and delete on a cache filled from the
\* mailboxes.
SingleCommands ==
    {[NoArgs EXCEPT !.cmd = c, !.pattern = ptn, !.interactive = TRUE] :
        c \in SingleMessageCommands \ {"read"},
        ptn \in {<<>>, << <<"I","n","v">> >>, << <<"R","e","p">> >>}}

NextSingle ==
    \/ \E a \in SingleCommands : cli(1, a)
    \/ select_msg_filter(1)
    \/ select_msg_query(1)
    \/ select_msg_match(1)
    \/ flag(1)
    \/ unflag(1)
    \/ delete(1)
    \/ delete_del_last(1)
    \/ set_flag_check(1)
    \/ set_flag_remote(1)
    \/ set_flag_remote_fail(1)
    \/ set_flag_write(1)
    \/ delete_msg_assert(1)
    \/ delete_msg_remote(1)
    \/ delete_msg_remote_fail(1)
    \/ delete_msg_write(1)
    \/ Exit(1)

SpecSingle == InitApi /\ [][NextSingle]_vars

\* ================================================================ claims
\* The messages update_cache fetched, and the state it started from.
Fetched(p) == local[p].messages
Unchanged(p) == table = before[p].rows /\ confFile.last = before[p].last

\* update_cache of invocation p returned after replacing the table.
Replaced(p) ==
    /\ pc[p] = "done"
    /\ args[p].cmd = "update"
    /\ result[p].status = "return"
    /\ Fetched(p) # <<>>

\* select_msg of invocation p ran to its end (it was not terminated).
Selected(p) ==
    /\ pc[p] = "done"
    /\ args[p].cmd = "select"
    /\ result[p].status # "killed"

\* The row the pointer value ptr refers to, as a set (empty: none).
Referent(ptr) ==
    IF ptr = None THEN {} ELSE {r \in table : r.id = Some(int(Val(ptr)))}

\* C1: after update_cache has returned with a non-empty fetched aggregate M,
\* the message table holds exactly the messages of M: the same set of
\* (uid, subject, date_str) keys, one row per message of M, and every row is
\* a message of M, whatever was cached before.
C1_ReplaceExact ==
    \A p \in Procs : Replaced(p) =>
        /\ {HashKey(r) : r \in table}
             = {HashKey(Fetched(p)[k]) : k \in 1..Len(Fetched(p))}
        /\ Cardinality(table) = Len(Fetched(p))
        /\ \A r \in table :
              \E k \in 1..Len(Fetched(p)) : [r EXCEPT !.id = None] = Fetched(p)[k]

\* A replace in which a cached message is gone from the server and a new
\* one has arrived.
C1_Witness ==
    \E p \in Procs :
        /\ Replaced(p)
        /\ \E r \in before[p].rows : HashKey(r) \notin {HashKey(q) : q \in table}
        /\ \E q \in table : HashKey(q) \notin {HashKey(r) : r \in before[p].rows}

\* C2: when every configured folder was fetched and the aggregate is empty,
\* update_cache returns with every row of the message table as it was.
C2_EmptyFetchKeepsCache ==
    \A p \in Procs :
        ( /\ pc[p] = "done"
          /\ args[p].cmd = "update"
          /\ result[p].status = "return"
          /\ Fetched(p) = <<>> )
        => table = before[p].rows

\* An empty fetch from a configured folder while the cache holds rows.
C2_Witness ==
    \E p \in Procs :
        /\ pc[p] = "done"
        /\ args[p].cmd = "update"
        /\ result[p].status = "return"
        /\ Fetched(p) = <<>>
        /\ local[p].folders # <<>>
        /\ before[p].rows # {}

\* C3: update_cache writes nothing while folders are still being fetched:
\* during the fetch loop, and after the loop was left by a failed fetch or
\* by termination of the process, the cache rows and the last-selected
\* pointer are those of the start of the call.
C3_NoWriteBeforeFetchDone ==
    \A p \in Procs : args[p].cmd = "update" =>
        /\ pc[p] \in {"uc_begin", "rm_fetch"} => Unchanged(p)
        /\ (pc[p] = "done" /\ result[p].at \in {"uc_begin", "rm_fetch"})
              => Unchanged(p)

\* The second folder's fetch fails after the first folder was fetched with
\* messages the cache does not hold.
C3_Witness ==
    \E p \in Procs :
        /\ pc[p] = "done"
        /\ args[p].cmd = "update"
        /\ result[p].exc = MailboxLoginError
        /\ local[p].i >= 1
        /\ before[p].rows # {}
        /\ \E k \in 1..Len(Fetched(p)) :
              HashKey(Fetched(p)[k]) \notin {HashKey(r) : r \in before[p].rows}

\* C4: after a successful update_cache an id of a row cached before the call
\* does not resolve to another message: the last-selected pointer is unset
\* (select_msg with an empty pattern raises), and a lookup by such an id
\* finds no row that is a different message from the one the id identified
\* before the call.  The claim asks for more (the lookup finds no row at
\* all) and so implies this.
C4_OldIdsDoNotResolve ==
    \A p \in Procs : Replaced(p) =>
        /\ confFile.last = None
        /\ \A r \in before[p].rows : \A q \in table :
              q.id = r.id =>
                  HashKey(q) = HashKey(r) /\ q.config_name = r.config_name

\* C5: whenever the table holds the generation update_cache has committed,
\* between its steps and after a failure or stop between them included, the
\* last-selected pointer is unset.
C5_PointerClearedWithReplace ==
    \A p \in Procs :
        ( /\ args[p].cmd = "update"
          /\ \/ pc[p] = "uc_dellast"
             \/ pc[p] = "done" /\ result[p].at = "uc_dellast" )
        => confFile.last = None

\* C7: for a configuration with an [APPLICATION] section, select_msg with an
\* empty pattern returns the row whose id is the pointer, and raises
\* NoLastMessage when the pointer is unset and when no row has that id.
C7_EmptyPatternResolvesPointer ==
    \A p \in Procs :
        (Selected(p) /\ args[p].pattern = <<>> /\ conf[p].hasApp) =>
            IF Referent(before[p].last) # {}
            THEN /\ result[p].status = "return"
                 /\ SeqToSet(result[p].ret) = Referent(before[p].last)
            ELSE /\ result[p].status = "raise"
                 /\ result[p].exc = NoLastMessage

\* C8: when exactly one cached message matches a non-empty pattern,
\* select_msg returns it and the stored pointer is its id; and select_msg
\* with an empty pattern returns the row the stored pointer refers to.
C8_UniqueMatchSelected ==
    \A p \in Procs :
        /\ ( /\ Selected(p)
             /\ args[p].pattern # <<>>
             /\ result[p].at = "sm_match"
             /\ Len(local[p].messages) = 1 )
           => /\ result[p].status = "return"
              /\ result[p].ret = local[p].messages
              /\ confFile.last = Some(str(Val(local[p].messages[1].id)))
        /\ ( /\ Selected(p)
             /\ args[p].pattern = <<>>
             /\ Referent(before[p].last) # {} )
           => /\ result[p].status = "return"
              /\ SeqToSet(result[p].ret) = Referent(before[p].last)

\* C9: when two or more cached messages match and select_msg is not
\* interactive, it raises the multiple-matches error, returns no message,
\* and the pointer, in the Config and in the file, is as before the call.
C9_AmbiguousRaises ==
    \A p \in Procs :
        ( /\ Selected(p)
          /\ ~args[p].interactive
          /\ result[p].at = "sm_match"
          /\ Len(local[p].messages) >= 2 )
        => /\ result[p].status = "raise"
           /\ result[p].exc = MultipleMatched
           /\ result[p].ret = <<>>
           /\ confFile.last = before[p].last
           /\ conf[p].last = before[p].last

\* Two matches while the pointer refers to a message.
C9_Witness ==
    \E p \in Procs :
        /\ Selected(p)
        /\ ~args[p].interactive
        /\ result[p].at = "sm_match"
        /\ Len(local[p].messages) >= 2
        /\ before[p].last # None

\* C10: when a non-empty pattern matches no cached message, select_msg
\* raises the no-match error, which is neither the multiple-matches error
\* nor NoLastMessage, and the pointer and the cache rows are as before.
C10_NoMatchRaises ==
    \A p \in Procs :
        ( /\ Selected(p)
          /\ args[p].pattern # <<>>
          /\ result[p].at = "sm_match"
          /\ Len(local[p].messages) = 0 )
        => /\ result[p].status = "raise"
           /\ result[p].exc = NoneMatched
           /\ result[p].exc \notin {MultipleMatched, NoLastMessage}
           /\ Unchanged(p)
           /\ conf[p].last = before[p].last

\* No match in a cache that holds rows, while the pointer refers to one.
C10_Witness ==
    \E p \in Procs :
        /\ Selected(p)
        /\ args[p].pattern # <<>>
        /\ result[p].at = "sm_match"
        /\ Len(local[p].messages) = 0
        /\ table # {}
        /\ before[p].last # None

\* The rows invocation w fetched are the rows `rows`, ids aside.
IsGeneration(rows, w) ==
    /\ Cardinality(rows) = Len(Fetched(w))
    /\ {[r EXCEPT !.id = None] : r \in rows} = SeqToSet(Fetched(w))

\* The rows a query of invocation r returns from the rows `rows`: all of
\* them for cached_messages, the rows its filter selects for select_msg.
Answer(r, rows) ==
    IF args[r].cmd = "select" THEN {q \in rows : Satisfies(q, local[r].exp)}
    ELSE rows

\* C6: a query of the message table (cached_messages over all rows, or the
\* query of select_msg) that runs while another invocation is inside
\* update_cache answers either from exactly the rows cached when that
\* update_cache started or from exactly the rows it fetched, never from a
\* table emptied by the delete nor from a mix of the two.
C6_ReaderSeesWholeGeneration ==
    [][\A r \in Procs :
          (pc[r] \in {"cm_query", "sm_query"} /\ pc'[r] # pc[r]
             /\ args[r].folders = <<>> /\ args[r].limit = 0)
          => \A w \in Procs \ {r} :
                (args[w].cmd = "update" /\ pc[w] \notin {"idle", "done"})
                => \/ SeqToSet(local'[r].messages) = Answer(r, before[w].rows)
                   \/ /\ pc[w] = "uc_dellast"
                      /\ \E gen \in SUBSET table :
                            /\ IsGeneration(gen, w)
                            /\ SeqToSet(local'[r].messages) = Answer(r, gen)]_vars

\* A query that ran while update_cache had deleted the rows in its open
\* transaction, and that returned cached rows.
C6_Witness ==
    \E r \in Procs :
        /\ pc[r] \in {"done", "sm_match"}
        /\ args[r].cmd \in {"cached", "select"}
        /\ obs[r] \cap {"uc_add", "uc_commit"} # {}
        /\ local[r].messages # <<>>

\* C11: for a non-empty pattern the rows the query of select_msg returns are
\* exactly the cached rows whose subject holds at least one of the terms as
\* a literal, case-sensitive substring at any position.
C11_LiteralSubstringMatch ==
    \A p \in Procs :
        ( /\ args[p].cmd = "select"
          /\ args[p].pattern # <<>>
          /\ pc[p] = "sm_match" )
        => SeqToSet(local[p].messages)
             = {r \in table : \E k \in 1..Len(args[p].pattern) :
                                 IsSubstring(args[p].pattern[k], r.subject)}

\* Position of message m in the sequence seq.
IndexOf(seq, m) == CHOOSE k \in 1..Len(seq) : seq[k] = m

\* C20: when cached_messages sorts by subject, two messages with the same
\* subject stand in its result in the relative order in which the query
\* returned them, with reverse unset and with reverse set.
C20_StableSubjectSort ==
    \A p \in Procs :
        ( /\ pc[p] = "done"
          /\ args[p].cmd = "cached"
          /\ args[p].sort = "subject"
          /\ result[p].status = "return" )
        => LET queried == local[p].messages
               ret == result[p].ret
           IN \A i, j \in 1..Len(queried) :
                 (i < j /\ queried[i].subject = queried[j].subject)
                 => IndexOf(ret, queried[i]) < IndexOf(ret, queried[j])

\* The call op of the program p has ended and the program has not gone on.
Completed(p, op) ==
    /\ pc[p] = "ready"
    /\ local[p].op = op
    /\ result[p].status \in {"return", "raise"}

\* The call of set_flag that has ended was the second of two calls in a row
\* with the same arguments on the same Message object.
Repeated(p) ==
    /\ Completed(p, "set_flag")
    /\ local[p].prev.op = "set_flag"
    /\ local[p].prev.flag = local[p].flag
    /\ local[p].prev.val = local[p].val

\* What two calls in a row did together.
RemoteCalls(p) == Len(local[p].prev.remote) + Len(local[p].remote)
CacheWrites(p) == local[p].prev.writes + local[p].writes

\* C12 as stated: two consecutive set_flag calls with the same arguments make
\* at most one remote flag call and one cache write together, exactly one of
\* each when the flag's presence differed from the desired value at the first
\* call; a call whose desired value equals the flag's presence in msg.flags
\* makes no remote call and no cache write.
C12_SetFlagIdempotent ==
    \A p \in Procs :
        /\ ( Completed(p, "set_flag")
             /\ local[p].val = (local[p].flag \in SeqToSet(local[p].flags0)) )
           => local[p].remote = <<>> /\ local[p].writes = 0
        /\ Repeated(p)
           => /\ RemoteCalls(p) <= 1
              /\ CacheWrites(p) <= 1
              /\ (local[p].prev.had # local[p].prev.val)
                    => RemoteCalls(p) = 1 /\ CacheWrites(p) = 1

\* C12, amended: the same for two consecutive set_flag calls with the same
\* arguments of which the first returns.
C12_SetFlagIdempotentAfterReturn ==
    \A p \in Procs :
        /\ ( Completed(p, "set_flag")
             /\ local[p].val = (local[p].flag \in SeqToSet(local[p].flags0)) )
           => local[p].remote = <<>> /\ local[p].writes = 0
        /\ (Repeated(p) /\ local[p].prev.status = "return")
           => /\ result[p].status = "return"
              /\ RemoteCalls(p) <= 1
              /\ CacheWrites(p) <= 1
              /\ (local[p].prev.had # local[p].prev.val)
                    => RemoteCalls(p) = 1 /\ CacheWrites(p) = 1

\* A second call after a first call that changed the flag and returned.
C12_Witness ==
    \E p \in Procs :
        /\ Repeated(p)
        /\ local[p].prev.status = "return"
        /\ local[p].prev.had # local[p].prev.val
        /\ local[p].prev.writes = 1

\* C13: when the remote flag call of set_flag fails, set_flag raises the
\* failure, runs no write on the cache (the rows are those of the start of
\* the call) and leaves msg.flags as it was.
C13_RemoteFailurePropagates ==
    \A p \in Procs :
        ( /\ pc[p] \in {"ready", "sf_write"}
          /\ local[p].op = "set_flag"
          /\ local[p].remote # <<>>
          /\ ~local[p].remote[Len(local[p].remote)].ok )
        => /\ pc[p] = "ready"
           /\ result[p].status = "raise"
           /\ result[p].exc = MailboxLoginError
           /\ local[p].writes = 0
           /\ table = before[p].rows
           /\ Val(local[p].msg).flags = local[p].flags0

\* A failed remote call for a message whose row is in the cache.
C13_Witness ==
    \E p \in Procs :
        /\ Completed(p, "set_flag")
        /\ result[p].exc = MailboxLoginError
        /\ \E r \in table : r.id = Val(local[p].msg).id

\* C14: after a set_flag that was not short-circuited has returned, msg.flags
\* and the flags of the cached row with the id of the message are the flags
\* msg had at the start with the token put in front (setting) or with the
\* token taken out and the rest in its order (clearing), and every other row
\* is as it was at the start of the call.
C14_FlagsWritten ==
    \A p \in Procs :
        ( /\ Completed(p, "set_flag")
          /\ result[p].status = "return"
          /\ result[p].at = "sf_write" )
        => LET msg == Val(local[p].msg)
               token == local[p].flag
               expected == IF local[p].val THEN <<token>> \o local[p].flags0
                           ELSE SelectSeq(local[p].flags0, LAMBDA f : f # token)
           IN /\ msg.flags = expected
              /\ table = {IF r.id = msg.id THEN [r EXCEPT !.flags = expected] ELSE r :
                            r \in before[p].rows}

\* A flag set on a message that has a flag already, its row among others.
C14_Witness ==
    \E p \in Procs :
        /\ Completed(p, "set_flag")
        /\ result[p].status = "return"
        /\ result[p].at = "sf_write"
        /\ local[p].val
        /\ local[p].flags0 # <<>>
        /\ \E r \in table : r.id = Val(local[p].msg).id
        /\ Cardinality(table) >= 2

\* The message m was deleted on the server on a delete request.
DeletedOnServer(m) ==
    m.uid # None /\ Val(m.uid) \in server[m.config_name].deleted

\* C15: delete_msg deletes on the server first. While the remote delete is
\* pending and after it failed the cache rows are those of the start of the
\* call; after delete_msg returned the rows are those of the start without
\* the row that has the id of the message; and a message deleted on the
\* server is in no later result of cached_messages or select_msg (select_msg
\* with the pointer at its id raises).
C15_DeleteRemoteFirst ==
    \A p \in Procs :
        /\ (local[p].op = "delete_msg" /\ pc[p] \in {"dm_assert", "dm_remote"})
           => table = before[p].rows
        /\ (Completed(p, "delete_msg") /\ result[p].status = "raise")
           => table = before[p].rows
        /\ (Completed(p, "delete_msg") /\ result[p].status = "return")
           => table = {r \in before[p].rows : r.id # Val(local[p].msg).id}
        /\ pc[p] = "ready"
           => /\ \A r \in table : ~DeletedOnServer(r)
              /\ \A k \in 1..Len(result[p].ret) : ~DeletedOnServer(result[p].ret[k])

\* The pointer is the id of a message that was then deleted, and select_msg
\* with an empty pattern has raised; another row is still cached.
C15_Witness ==
    \E p \in Procs :
        /\ pc[p] = "ready"
        /\ result[p].at = "sm_match"
        /\ args[p].pattern = <<>>
        /\ result[p].exc = NoneMatched
        /\ confFile.last # None
        /\ \E f \in DOMAIN server : server[f].deleted # {}
        /\ table # {}

\* C16: delete_msg on a message whose uid is null raises on the assertion:
\* it sends no request to a server and writes nothing to the cache, and the
\* positions of the remote call and of the cache write are not reached.
C16_NullUidStopsDelete ==
    \A p \in Procs :
        (local[p].op = "delete_msg" /\ Val(local[p].msg).uid = None)
        => /\ pc[p] \in {"dm_assert", "ready"}
           /\ local[p].remote = <<>>
           /\ local[p].writes = 0
           /\ table = before[p].rows
           /\ pc[p] = "ready" => result[p].exc = AssertionError

\* delete_msg was called on a cached message without a uid and has ended.
C16_Witness ==
    \E p \in Procs :
        /\ Completed(p, "delete_msg")
        /\ Val(local[p].msg).uid = None
        /\ Val(local[p].msg) \in table

\* C17: every flag or delete request is for a message with a known uid, goes
\* to the folder of the message and carries the uid of the message.
C17_RequestsCarryUid ==
    \A p \in Procs :
        \A k \in 1..Len(local[p].remote) :
            LET msg == Val(local[p].msg)
            IN /\ msg.uid # None
               /\ local[p].remote[k].folder = msg.config_name
               /\ local[p].remote[k].uid = str(Val(msg.uid))

\* The row r has its mail on the server, with the same set of flags.
Mirrors(r) ==
    /\ r.uid # None
    /\ \E k \in 1..Len(server[r.config_name].mails) :
          LET mail == server[r.config_name].mails[k]
          IN /\ mail.uid = Val(r.uid)
             /\ SeqToSet(mail.flags) = SeqToSet(r.flags)

\* C18: from a cache that mirrors the server, whenever every set_flag and
\* delete_msg call made so far has ended (returned or raised), every cached
\* row has its mail on the server and the same set of flags as that mail.
C18_RemoteCacheConsistent ==
    (\A p \in Procs : AtRest(p))
    => \A r \in table : Mirrors(r)

\* C19: when a command of an invocation has ended, the last-selected pointer
\* is unset or is the id of a row of the cache.
C19_PointerValidAtCommandEnd ==
    \A p \in Procs :
        pc[p] = "done" => (confFile.last = None \/ Referent(confFile.last) # {})

\* The rows of the folders F (of every folder when F is empty), and the
\* messages a cached_messages call of p has returned.
RowsIn(F) == IF F = <<>> THEN table ELSE {r \in table : r.config_name \in SeqToSet(F)}
QueryDone(p) == result[p].at = "cm_query" /\ result[p].status = "return"

\* C21: cached_messages with folders F and limit L returns only messages of
\* the folders of F, at most L of them over all folders, and they are the L
\* newest rows of F whatever the sort key: the limit cuts before the sort.
C21_LimitBeforeSort ==
    \A p \in Procs : QueryDone(p) =>
        LET ret == result[p].ret
            F == args[p].folders
            L == args[p].limit
        IN /\ \A k \in 1..Len(ret) : ret[k].config_name \in SeqToSet(F)
           /\ Len(ret) <= L
           /\ \A k \in 1..Len(ret) : \A r \in RowsIn(F) \ SeqToSet(ret) :
                 ret[k].timestamp >= r.timestamp

\* C21, amended: the folder restriction applies when F is not empty and the
\* cap when L is positive; an empty F means every folder and a limit of 0
\* means no cap. The returned messages are rows of F, each once, as many as
\* the cap allows, and no row left out is newer than a returned one.
C21_LimitBeforeSortWhenGiven ==
    \A p \in Procs : QueryDone(p) =>
        LET ret == result[p].ret
            F == args[p].folders
            L == args[p].limit
            n == Cardinality(RowsIn(F))
        IN /\ SeqToSet(ret) \subseteq RowsIn(F)
           /\ Cardinality(SeqToSet(ret)) = Len(ret)
           /\ Len(ret) = IF L > 0 /\ L < n THEN L ELSE n
           /\ \A k \in 1..Len(ret) : \A r \in RowsIn(F) \ SeqToSet(ret) :
                 ret[k].timestamp >= r.timestamp

\* A query sorted by subject whose limit left out an older row with a
\* smaller subject.
C21_Witness ==
    \E p \in Procs :
        /\ QueryDone(p)
        /\ args[p].sort = "subject"
        /\ args[p].limit = 1
        /\ Len(result[p].ret) = 1
        /\ \E r \in RowsIn(args[p].folders) :
              /\ r.timestamp < result[p].ret[1].timestamp
              /\ ~LexLeq(sorter(result[p].ret[1], "subject"), sorter(r, "subject"))

\* C22: a listing command with limit N > 0 gets, of each selected folder,
\* its cached messages up to N of them.
C22_LimitPerFolder ==
    \A p \in Procs :
        (QueryDone(p) /\ args[p].cmd \in ListCommands /\ args[p].limit > 0) =>
            \A k \in 1..Len(args[p].folders) :
                LET f == args[p].folders[k]
                    cached == Cardinality({r \in table : r.config_name = f})
                    listed == Cardinality({j \in 1..Len(result[p].ret) :
                                              result[p].ret[j].config_name = f})
                IN listed = IF args[p].limit < cached THEN args[p].limit ELSE cached

\* C23: select_folders. Without terms: the primary folders, or all with
\* --all, and an error when there are none. With terms: the folders whose
\* name contains every term; an error when there are none; all of them with
\* --all or when none of them is primary; else the primary ones among them.
C23_SelectFolders ==
    \A p \in Procs : result[p].at = "fo_select" =>
        LET configured == SeqToSet(conf[p].folders)
            terms == args[p].pattern
            all == args[p].all_folders
            named == {f \in configured :
                        \A k \in 1..Len(terms) : IsSubstring(terms[k], NameChars[f])}
            primary == {f \in configured : Primary[f]}
            expected == IF terms = <<>> THEN (IF all THEN configured ELSE primary)
                        ELSE IF all \/ named \cap primary = {} THEN named
                        ELSE named \cap primary
        IN IF expected = {}
           THEN result[p].status = "raise" /\ result[p].exc.cls = "Error"
           ELSE /\ result[p].status = "return"
                /\ SeqToSet(args[p].folders) = expected
                /\ Len(args[p].folders) = Cardinality(expected)

\* A term that a primary and a non-primary folder contain, without --all:
\* the primary folder alone is returned.
C23_Witness ==
    \E p \in Procs :
        /\ result[p].at = "fo_select"
        /\ result[p].status = "return"
        /\ args[p].pattern = << <<"o">> >>
        /\ ~args[p].all_folders
        /\ conf[p].folders = <<"work", "home">>
        /\ args[p].folders = <<"work">>

C25_SessionsClosed ==
    \A p \in Procs :
        (Completed(p, "set_flag") \/ Completed(p, "delete_msg"))
        => \A k \in 1..Len(local[p].remote) : local[p].remote[k].closed

\* C26: a failure of a remote call of update_cache ends the command with a
\* RemoteMailboxError, an Error of the application that run reports.
C26_RemoteFailureIsUserError ==
    \A p \in Procs :
        ( /\ pc[p] = "done"
          /\ args[p].cmd = "update"
          /\ result[p].status = "raise"
          /\ result[p].at = "rm_fetch"
          /\ local[p].i < Len(local[p].folders) )
        => result[p].exc.cls = "RemoteMailboxError"

C29_InteractiveChoice ==
    \A p \in Procs :
        ( /\ Selected(p)
          /\ args[p].interactive
          /\ result[p].at = "sm_match"
          /\ Len(local[p].messages) >= 2 )
        => \/ /\ result[p].status = "return"
              /\ Len(result[p].ret) = 1
              /\ result[p].ret[1] \in SeqToSet(local[p].messages)
              /\ confFile.last = Some(str(Val(result[p].ret[1].id)))
           \/ /\ result[p].status = "exit"
              /\ result[p].ret = <<>>
              /\ confFile.last = before[p].last

\* The positions inside set_flag and delete_msg.
InCall(p) ==
    pc[p] \in {"sf_check", "sf_remote", "sf_write", "dm_assert", "dm_remote", "dm_write"}

\* C28: no step of set_flag or of delete_msg changes the pointer, in the
\* Config or in the file, however the call ends; and a step that removes a
\* stored pointer is the statement of the delete command that follows a
\* delete_msg that returned after its cache write.
C28_PointerLeftToCaller ==
    [][\A p \in Procs :
          /\ InCall(p) => (confFile'.last = confFile.last /\ conf'[p].last = conf[p].last)
          /\ (pc'[p] # pc[p] /\ confFile.last # None /\ confFile'.last = None)
             => /\ args[p].cmd = "delete"
                /\ pc[p] = "cmd_dellast"
                /\ result[p].at = "dm_write"
                /\ result[p].status = "return"]_vars

\* The delete command has removed the pointer after delete_msg, and another
\* message is still cached.
C28_Witness ==
    \E p \in Procs :
        /\ pc[p] = "done"
        /\ args[p].cmd = "delete"
        /\ result[p].at = "cmd_dellast"
        /\ result[p].status = "return"
        /\ before[p].last # None
        /\ confFile.last = None
        /\ table # {}

\* The sequence has no token twice.
NoDuplicate(flags) == Cardinality(SeqToSet(flags)) = Len(flags)

\* C30: a step of set_flag leaves the flags of the Message object and of
\* every cached row without a token twice if they were so; every token other
\* than the one passed is in them after the step exactly if it was before;
\* and the token passed is, in the object and in the row of the message, as
\* the call set it if the step wrote, else as it was.
C30_FlagsAreASet ==
    [][\A p \in Procs :
          (local[p].op = "set_flag" /\ pc[p] \in {"sf_check", "sf_remote", "sf_write"})
          => LET token == local[p].flag
                 others == SeqToSet(FlagTokens) \ {token}
                 msg == Val(local[p].msg)
                 after == Val(local'[p].msg)
                 wrote == local'[p].writes > local[p].writes
             IN /\ NoDuplicate(msg.flags) => NoDuplicate(after.flags)
                /\ \A t \in others :
                      t \in SeqToSet(after.flags) <=> t \in SeqToSet(msg.flags)
                /\ token \in SeqToSet(after.flags)
                      <=> IF wrote THEN local[p].val ELSE token \in SeqToSet(msg.flags)
                /\ \A r \in table' : \E r0 \in table :
                      /\ r0.id = r.id
                      /\ NoDuplicate(r0.flags) => NoDuplicate(r.flags)
                      /\ \A t \in others :
                            t \in SeqToSet(r.flags) <=> t \in SeqToSet(r0.flags)
                      /\ token \in SeqToSet(r.flags)
                            <=> IF wrote /\ r.id = msg.id THEN local[p].val
                                ELSE token \in SeqToSet(r0.flags)]_vars


\* C31: with no folder section in the configuration, update_cache returns
\* normally whatever the debug setting is (verbose and show_bar only choose
\* what is printed), without a turn of the fetch loop, and the message table
\* and the last-selected pointer are as they were when it started.
C31_NoFoldersIsNoOp ==
    \A p \in Procs :
        ( /\ pc[p] = "done"
          /\ args[p].cmd = "update"
          /\ Config_folders(conf[p]) = <<>>
          /\ result[p].status # "killed" )
        => /\ result[p].status = "return"
           /\ local[p].i = 0
           /\ Unchanged(p)


\* C32: when an invocation running update_cache and an invocation running
\* select_msg (which writes the pointer from its own Config) have both run
\* to their end, interleaved in any way, the last-selected pointer is unset
\* or is the id of a row of the table now stored, and that row is the
\* message select_msg returned.
C32_PointerInStoredGeneration ==
    \A w \in Procs : \A r \in Procs \ {w} :
        ( /\ Replaced(w)
          /\ Selected(r)
          /\ result[r].status = "return" )
        => \/ confFile.last = None
           \/ /\ Referent(confFile.last) # {}
              /\ Referent(confFile.last) = SeqToSet(result[r].ret)

====
